---------------------------- MODULE Spec2Model ----------------------------
(***************************************************************************)
(* A model of the user-space GPU programs of pmu_example: busy_sync.c,     *)
(* image_render.c and xe_mem_regions.c.  Each program is a straight line   *)
(* of device operations (ioctls) with a fatal exit after every failure;    *)
(* busy_sync ends in an endless reset -> submit -> wait loop, image_render *)
(* runs that cycle once and then presents its buffer.                      *)
(*                                                                         *)
(* The program side (control flow, arguments, scans of the query results)  *)
(* is translated from the C source.  The device side (what an ioctl does   *)
(* to the address space, the buffers, the fence) is not in the repository: *)
(* it is modelled from the design document and kept in the Drv* operators  *)
(* and in EngineComplete.                                                  *)
(*                                                                         *)
(* Units: GPU virtual addresses are in KiB (0x100000000 does not fit a     *)
(* 32-bit model integer); sizes, ranges and page sizes are in bytes.       *)
(***************************************************************************)
EXTENDS Integers, Sequences, FiniteSets, TLC

\* ------------------------------------------------------------ bounds
MaxRegions == 2
MaxEngines == 2
MaxCycles == 2
MaxConnectors == 2
\* toy_pmu: the ticks of the counter, and the value of active, that are
\* explored
MaxTicks == 3
MaxActive == 2

\* ------------------------------------------------- program constants
BO_SIZE == 4096
\* 0x1000000 bytes, in KiB
BIND_ADDRESS == 16384
\* 0x0000000100000000 bytes, in KiB
GPU_BATCH_ADDR == 4194304
\* 0x0000000200000000 bytes, in KiB
GPU_COLOR_ADDR == 8388608
BATCH_BO_SIZE == 4096
\* uint32_t min_page_size = 4096; the scan's starting value
DefaultMinPageSize == 4096
\* bytes per pixel: bpp / 8 with bpp = 32
cpp == 4

DRM_XE_MEM_REGION_CLASS_SYSMEM == "SYSMEM"
DRM_XE_MEM_REGION_CLASS_VRAM == "VRAM"
DRM_XE_ENGINE_CLASS_RENDER == "RENDER"
DRM_XE_ENGINE_CLASS_COPY == "COPY"

EXIT_FAILURE == "EXIT_FAILURE"
EXIT_SUCCESS == "EXIT_SUCCESS"

\* ------------------------------------------------ the device's answers
MemClasses == {DRM_XE_MEM_REGION_CLASS_SYSMEM, DRM_XE_MEM_REGION_CLASS_VRAM}
EngineClasses == {DRM_XE_ENGINE_CLASS_RENDER, DRM_XE_ENGINE_CLASS_COPY}
\* instance is the index of the region in a placement mask
Instances == {0, 1}
\* min_page_size is a __u32 the device fills in: below, at and above 4 KiB
PageSizes == {1024, 4096, 65536}

MemRegion == [mem_class : MemClasses, instance : Instances, min_page_size : PageSizes]
Engine == [engine_class : EngineClasses, engine_instance : Instances, gt_id : {0}]

SeqsUpTo(S, n) == UNION {[1..k -> S] : k \in 0..n}
RegionLists == SeqsUpTo(MemRegion, MaxRegions)
EngineLists == SeqsUpTo(Engine, MaxEngines)

\* hdisplay x vdisplay of the display mode kms_setup_basic returns
Modes == {<<1024, 768>>, <<1366, 768>>, <<1920, 1080>>}

\* an ioctl returns 0, or -1 with errno set
IoctlRet == {0, -1}

\* ------------------------------------------------ the display's answers
DRM_MODE_CONNECTED == "CONNECTED"
DRM_MODE_DISCONNECTED == "DISCONNECTED"

\* the modes of a connector: none, one, or two different ones
ModeLists ==
  {<< >>} \cup {<< m >> : m \in Modes}
          \cup {l \in Modes \X Modes : l[1] # l[2]}

\* drmModeGetConnector returned NULL
NoConnector == [connection |-> "NULL", modes |-> << >>, encoder_id |-> 0]
\* the encoders of the device; a connector's current encoder, if it has
\* one (encoder_id 0: none), is encoder 7
EncoderIds == {7, 8}
Connector ==
  [connection : {DRM_MODE_CONNECTED, DRM_MODE_DISCONNECTED}, modes : ModeLists,
   encoder_id : {0, 7}]
ConnectorAnswers == Connector \cup {NoConnector}

\* drmModeGetEncoder returned NULL
NoEncoder == [encoder_id |-> 0, crtc_id |-> 0]
\* crtc_id 0: the encoder drives no CRTC
CrtcIds == {41, 42}

\* what drmModeGetResources returns: the connectors (by position; their
\* ids are ConnectorId(i)), the first encoder of the list (0: count_encoders
\* is 0) and the CRTCs; NoRes stands for NULL and for the freed resources
NoRes == [count_connectors |-> -1, encoders0 |-> 0, crtcs |-> << >>]
Resources ==
  [count_connectors : 0..MaxConnectors, encoders0 : {0} \cup EncoderIds,
   crtcs : {<< >>, << 41 >>, << 42, 41 >>}]
\* res->connectors[i - 1]
ConnectorId(i) == 30 + i

\* ---------------------------------------------------- bit operations
\* The masks of the model stay below 2^31 (the instances are small), so
\* bits 0..30 of the uint32_t are represented.
Pow2(n) == 2 ^ n
\* 1u << n
Shl1(n) == Pow2(n)
TestBit(x, n) == (x \div Pow2(n)) % 2 = 1

RECURSIVE OrBits(_, _, _)
OrBits(x, y, n) ==
  IF n < 0 THEN 0
  ELSE (IF TestBit(x, n) \/ TestBit(y, n) THEN Pow2(n) ELSE 0) + OrBits(x, y, n - 1)
\* x | y
BitOr(x, y) == OrBits(x, y, 30)

\* ------------------------------------------- pick_sysmem_placement
\* the scan tests for the wrong class
IsSysmemVram(r) == r.mem_class = DRM_XE_MEM_REGION_CLASS_VRAM

\* if (r->mem_class == DRM_XE_MEM_REGION_CLASS_SYSMEM)
IsSysmem(r) == r.mem_class = DRM_XE_MEM_REGION_CLASS_SYSMEM

\* placement |= (1u << r->instance);
AddPlacement(placement, r) == BitOr(placement, Shl1(r.instance))

\* the last match wins instead of the largest
TrackMinPageSizeLast(mps, r) == r.min_page_size

\* if (r->min_page_size > min_page_size) min_page_size = r->min_page_size;
TrackMinPageSize(mps, r) == IF r.min_page_size > mps THEN r.min_page_size ELSE mps

\* the for loop over mem->mem_regions[i], from index i (1-based here)
RECURSIVE ScanRegions(_, _, _, _)
ScanRegions(mem, i, placement, mps) ==
  IF i > Len(mem) THEN [placement |-> placement, min_page_size |-> mps]
  ELSE IF IsSysmem(mem[i])
       THEN ScanRegions(mem, i + 1, AddPlacement(placement, mem[i]),
                        TrackMinPageSize(mps, mem[i]))
       ELSE ScanRegions(mem, i + 1, placement, mps)

\* a scan that falls back to the region of instance 0 when it found no
\* SYSMEM region
SysmemPlacementOrFirst(mem) ==
  LET r == ScanRegions(mem, 1, 0, DefaultMinPageSize)
  IN IF r.placement = 0 THEN [r EXCEPT !.placement = 1] ELSE r

\* uint32_t placement = 0; uint32_t min_page_size = 4096; then the loop
SysmemPlacement(mem) == ScanRegions(mem, 1, 0, DefaultMinPageSize)

\* xe_mem_regions.c: uint32_t sysmem_min_page_size = 0; then the loop
RECURSIVE ScanSysmemMinPageSize(_, _, _)
ScanSysmemMinPageSize(mem, i, mps) ==
  IF i > Len(mem) THEN mps
  ELSE IF mem[i].mem_class = DRM_XE_MEM_REGION_CLASS_SYSMEM
          /\ mem[i].min_page_size > mps
       THEN ScanSysmemMinPageSize(mem, i + 1, mem[i].min_page_size)
       ELSE ScanSysmemMinPageSize(mem, i + 1, mps)

SysmemMinPageSize(mem) == ScanSysmemMinPageSize(mem, 1, 0)

\* ---------------------------------------------- pick_render_engine
NoEngine == [engine_class |-> "NONE", engine_instance |-> 0, gt_id |-> 0]

\* a scan that keeps going and ends with the last RENDER entry
RECURSIVE ScanEnginesLast(_, _)
ScanEnginesLast(engs, i) ==
  IF i > Len(engs) THEN NoEngine
  ELSE LET rest == ScanEnginesLast(engs, i + 1)
       IN IF rest # NoEngine THEN rest
          ELSE IF engs[i].engine_class = DRM_XE_ENGINE_CLASS_RENDER THEN engs[i]
          ELSE NoEngine

\* the for loop over engines->engines[i]: the first RENDER entry is
\* returned from inside the loop; NoEngine stands for falling out of it
RECURSIVE ScanEngines(_, _)
ScanEngines(engs, i) ==
  IF i > Len(engs) THEN NoEngine
  ELSE IF engs[i].engine_class = DRM_XE_ENGINE_CLASS_RENDER THEN engs[i]
       ELSE ScanEngines(engs, i + 1)

\* a scan that falls back to the first entry instead of giving up
RenderEngineOrFirst(engs) ==
  IF ScanEngines(engs, 1) = NoEngine /\ engs # << >> THEN engs[1]
  ELSE ScanEngines(engs, 1)

RenderEngine(engs) == ScanEngines(engs, 1)

\* ------------------------------------------------------ control flow
Programs == {"busy_sync", "image_render", "xe_mem_regions"}

\* a setup that picks the engine before it binds
BusySyncSetupEnginesFirst ==
  << "open_render_node", "vm_create", "query_mem_regions", "scan_mem_regions",
     "gem_create", "mmap_offset", "mmap", "write_batch",
     "query_engines", "scan_engines", "free_engines", "vm_bind",
     "exec_queue_create", "create_syncobj" >>

\* busy_sync.c main, steps 1) to 9), in program order
BusySyncSetup ==
  << "open_render_node", "vm_create", "query_mem_regions", "scan_mem_regions",
     "gem_create", "mmap_offset", "mmap", "write_batch", "vm_bind",
     "query_engines", "scan_engines", "free_engines", "exec_queue_create",
     "create_syncobj" >>

\* a loop that closes the session at the end of each cycle
LoopBodyThenClose == << "reset_syncobj", "exec", "wait_syncobj", "close" >>

\* a loop that submits ahead: the wait is missing
LoopBodyNoWait == << "reset_syncobj", "exec" >>

\* a loop that reuses the fence without resetting it
LoopBodyNoReset == << "exec", "wait_syncobj" >>

\* the body of while (1): reset, submit, wait
LoopBody == << "reset_syncobj", "exec", "wait_syncobj" >>

\* image_render.c main, in program order; its cycle runs once
ImageRenderSteps ==
  << "open_render_node", "open_card_node", "kms_setup_basic", "vm_create",
     "query_mem_regions", "scan_mem_regions", "gem_create", "mmap_offset",
     "mmap", "paint_gradient", "gem_create_batch", "mmap_offset_batch",
     "mmap_batch", "write_batch", "vm_bind", "query_engines", "scan_engines",
     "free_engines", "exec_queue_create", "create_syncobj", "reset_syncobj", "exec",
     "wait_syncobj", "prime_export", "prime_import", "add_fb2", "set_crtc",
     "sleep" >>

\* xe_mem_regions.c main
MemRegionsSteps ==
  << "open_render_node", "query_mem_regions", "print_regions", "close" >>

Steps(p) ==
  CASE p = "busy_sync" -> BusySyncSetup \o LoopBody
    [] p = "image_render" -> ImageRenderSteps
    [] OTHER -> MemRegionsSteps

IndexOf(seq, s) == CHOOSE i \in 1..Len(seq) : seq[i] = s

\* the statement that follows step s of program p: the next one in program
\* order; the end of busy_sync's loop body goes back to its start, the sleep
\* loop of image_render to itself, and xe_mem_regions returns 0
StepAfter(p, s) ==
  LET seq == Steps(p)
      i == IndexOf(seq, s)
  IN IF i < Len(seq) THEN seq[i + 1]
     ELSE CASE p = "busy_sync" -> LoopBody[1]
            [] p = "image_render" -> "sleep"
            [] OTHER -> "exited"

\* the result of the submit is not looked at
IoctlFailedExecUnchecked(req, ret) == req # "DRM_IOCTL_XE_EXEC" /\ ret < 0

\* the result of the bind is not looked at
IoctlFailedBindUnchecked(req, ret) == req # "DRM_IOCTL_XE_VM_BIND" /\ ret < 0

\* if (ioctl(fd, req, &arg) < 0) die(...)
IoctlFailed(req, ret) == ret < 0

\* the color buffer's address handed to the queue instead of the batch's
ExecAddressColor(p) == IF p = "busy_sync" THEN BIND_ADDRESS ELSE GPU_COLOR_ADDR

\* .address of struct drm_xe_exec
ExecAddress(p) == IF p = "busy_sync" THEN BIND_ADDRESS ELSE GPU_BATCH_ADDR

VARIABLES
  \* the program: which one runs, where it is, how it ended, what it printed
  prog, pc, exit_status, stderr,
  \* locals of main; engines is the buffer the engine query fills, until
  \* pick_render_engine frees it
  mode, vm_id, placement, min_page_size, sysmem_min_page_size,
  bo_handle, batch_handle, engines, inst, exec_queue_id, sync_handle,
  \* the device: regions it reports, address spaces, buffers, bindings,
  \* queues, the fence, the batches the engine holds
  mem_regions, vms, bos, bindings, queues, syncobj, inflight,
  \* kms_setup_basic: the resources, the connectors fetched so far, the
  \* connector and the encoder it holds until it frees them; conn_id and
  \* crtc_id of the struct kms_info it returns
  res, connectors, conn, enc, conn_id, crtc_id,
  \* the presentation: the PRIME descriptor, the handle of the import on the
  \* KMS fd, the framebuffer
  prime_fd, kms_bo_handle, fb_id,
  \* the device's side of it: the buffer behind each descriptor, behind each
  \* handle of the KMS session, and the framebuffers
  dmabufs, kms_bos, fbs,
  \* history: the steps issued so far, the operations on the fence since
  \* (and with) its most recent reset, submissions not yet waited for,
  \* completed cycles, the device operations that failed
  done, fenceops, unwaited, cycle, failed,
  \* toy_pmu.c, one CPU: struct toy_cpu_ctx (counter, active, and whether
  \* the hrtimer is enqueued) and the hw part of each perf event
  counter, active, timer, event,
  \* the statement the CPU has reached in the pmu callback it is running,
  \* and that call: which callback, on which event, and whether its guard
  \* made it return at once
  toy_pc, toy_call,
  \* history: the events that were added at least once; per event, the ticks
  \* of the counter while it was started, since its add; and whether, since
  \* its add, every start found it stopped and every read found it started
  added, ticks, inorder,
  \* ask_yes_or_quit.c: attempts, the value returned ("none" while in the
  \* loop), and, as history, what each scanf so far has read
  attempts, ask_ret, reads

ctlVars == << prog, pc, exit_status, stderr, done >>
kmsVars == << res, connectors, conn, enc, conn_id, crtc_id >>
presVars == << prime_fd, kms_bo_handle, fb_id >>
locVars == << kmsVars, presVars, mode, vm_id, placement, min_page_size,
              sysmem_min_page_size, bo_handle, batch_handle, engines, inst,
              exec_queue_id, sync_handle >>
presDevVars == << dmabufs, kms_bos, fbs >>
devVars == << presDevVars, mem_regions, vms, bos, bindings, queues, syncobj,
              inflight >>
loopVars == << fenceops, unwaited, cycle >>
histVars == << loopVars, failed >>
gpuVars == << ctlVars, locVars, devVars, histVars >>
toyVars == << counter, active, timer, event, toy_pc, toy_call, added, ticks,
              inorder >>
askVars == << attempts, ask_ret, reads >>
vars == << gpuVars, toyVars, askVars >>

\* uint64_t bo_size = (uint64_t)stride * height, stride = width * cpp
bo_size == IF prog = "image_render" THEN mode[1] * cpp * mode[2] ELSE BO_SIZE

\* ------------------------------------------ toy_pmu.c: what it works on
\* the flag of hw.state that toy_pmu uses, and the flag of add
PERF_HES_STOPPED == "PERF_HES_STOPPED"
PERF_EF_START == "PERF_EF_START"

\* the perf events that the core schedules on the CPU
Events == {"e1", "e2"}

\* struct hw_perf_event as toy_pmu uses it; a new perf event is zeroed
HwZero == [state |-> {}, count |-> 0, prev_count |-> 0]

\* no pmu callback has been called yet
NoCall == [op |-> "none", event |-> "e1", skipped |-> FALSE]

\* toy_pmu_init, for the CPU: counter and active are 0 and the timer is
\* initialised, not started
ToyInit ==
  /\ counter = 0 /\ active = 0 /\ timer = "idle"
  /\ event = [e \in Events |-> HwZero]
  /\ toy_pc = "idle" /\ toy_call = NoCall
  /\ added = {}
  /\ ticks = [e \in Events |-> 0]
  /\ inorder = [e \in Events |-> TRUE]

\* ---------------------------------- ask_yes_or_quit.c: what scanf reads
\* scanf(" %c", &c) at end of input and on a read error: the result is not 1
ScanfFailures == {"EOF", "error"}

\* the characters scanf may store in c: the four the function knows, and
\* others
Chars == {"y", "Y", "q", "Q", "n", "1"}

\* char c; int attempts = 0;
AskInit == attempts = 0 /\ ask_ret = "none" /\ reads = << >>

Init ==
  /\ ToyInit
  /\ AskInit
  /\ prog \in Programs
  /\ pc = "open_render_node"
  /\ exit_status = "running"
  /\ stderr = {}
  /\ mode = << 0, 0 >>
  /\ vm_id = 0 /\ placement = 0 /\ min_page_size = 0 /\ sysmem_min_page_size = 0
  /\ bo_handle = 0 /\ batch_handle = 0
  /\ engines = << >> /\ inst = NoEngine
  /\ exec_queue_id = 0 /\ sync_handle = 0
  /\ mem_regions = << >> /\ vms = {} /\ bos = << >> /\ bindings = {}
  /\ queues = {} /\ syncobj = "none" /\ inflight = << >>
  /\ res = NoRes /\ connectors = << >> /\ conn = NoConnector /\ enc = NoEncoder
  /\ conn_id = 0 /\ crtc_id = 0
  /\ prime_fd = -1 /\ kms_bo_handle = 0 /\ fb_id = 0
  /\ dmabufs = << >> /\ kms_bos = << >> /\ fbs = << >>
  /\ done = {} /\ fenceops = << >> /\ unwaited = 0 /\ cycle = 0 /\ failed = {}

\* ------------------------------------------------------------ helpers
\* the step returned and the program goes on with the next statement
GotoWarn(l, msgs) ==
  /\ pc' = l
  /\ done' = done \cup {pc}
  /\ stderr' = stderr \cup msgs
  /\ UNCHANGED << prog, exit_status >>

Goto(l) == GotoWarn(l, {})

\* fprintf(stderr, msg); then exit(status) or return status from main
Exit(status, msgs) ==
  /\ pc' = "exited"
  /\ exit_status' = status
  /\ stderr' = stderr \cup msgs
  /\ done' = done \cup {pc}
  /\ UNCHANGED prog

\* die(msg): perror(msg); exit(EXIT_FAILURE)
die(msg) == Exit(EXIT_FAILURE, {msg})

\* the result of a device operation (an ioctl, an open, an mmap): a failure
\* is remembered under the name of the request
Answer(req, ret) == failed' = IF ret < 0 THEN failed \cup {req} ELSE failed

\* ------------------------------------------------- the device's side
\* the regions of the device a placement mask allows
DrvRegionsInMask(regions, mask) ==
  {i \in 1..Len(regions) : TestBit(mask, regions[i].instance)}

\* an allocation whose mask names no region of the device must fail
DrvGemCreateRets(regions, mask) ==
  IF DrvRegionsInMask(regions, mask) = {} THEN {-1} ELSE IoctlRet

\* VA (KiB) and range (bytes) are multiples of the page size (bytes)
DrvAligned(addr, range, mps) ==
  /\ mps % 1024 = 0
  /\ addr % (mps \div 1024) = 0
  /\ range % mps = 0

\* a bind is all-or-nothing and succeeds iff every entry is aligned to the
\* min_page_size of the region that owns its buffer
DrvBindRets(ops, b) ==
  IF \A k \in 1..Len(ops) :
       /\ ops[k].obj \in DOMAIN b
       /\ DrvAligned(ops[k].addr, ops[k].range, b[ops[k].obj].min_page_size)
  THEN {0} ELSE {-1}

\* ------------------------------------------------------------- steps
\* open_render_node(node); if (fd < 0) return EXIT_FAILURE;
OpenRenderNode ==
  /\ pc = "open_render_node"
  /\ \E fd \in {3, -1} :
       /\ Answer("open render node", fd)
       /\ IF fd < 0 THEN Exit(EXIT_FAILURE, {"Failed to open render node"})
          ELSE Goto(StepAfter(prog, pc))
  /\ UNCHANGED << locVars, devVars, loopVars >>
  /\ UNCHANGED << toyVars, askVars >>

\* open_card_node(card_node); if (kms_fd < 0) return EXIT_FAILURE;
OpenCardNode ==
  /\ pc = "open_card_node"
  /\ \E fd \in {4, -1} :
       /\ Answer("open card node", fd)
       /\ IF fd < 0 THEN Exit(EXIT_FAILURE, {"KMS card node open failed"})
          ELSE Goto(StepAfter(prog, pc))
  /\ UNCHANGED << locVars, devVars, loopVars >>
  /\ UNCHANGED << toyVars, askVars >>

\* kms_setup_basic(kms_fd) as main sees it: it returns the first mode of
\* some connector, or it ends the program (no resources, no connected
\* connector, no encoder).  Which connector and which CRTC it takes is the
\* subject of KmsSpec, where the function is taken statement by statement.
KmsSetupBasic ==
  /\ pc = "kms_setup_basic"
  /\ \/ /\ Answer("drmModeGetResources", -1)
        /\ die("drmModeGetResources")
        /\ UNCHANGED mode
     \/ /\ \E m \in Modes : mode' = m
        /\ Goto(StepAfter(prog, pc))
        /\ UNCHANGED failed
     \/ /\ \E msg \in {"No connected connector found", "No encoder found"} :
             Exit(EXIT_FAILURE, {msg})
        /\ UNCHANGED << mode, failed >>
  /\ UNCHANGED << kmsVars, presVars, vm_id, placement, min_page_size,
                  sysmem_min_page_size, bo_handle, batch_handle, engines, inst,
                  exec_queue_id, sync_handle, devVars, loopVars >>
  /\ UNCHANGED << toyVars, askVars >>

\* drmModeRes *res = drmModeGetResources(fd); if (!res) die(...)
KmsGetResources ==
  /\ pc = "kms_setup_basic"
  /\ \E r \in Resources \cup {NoRes} :
       IF r = NoRes
       THEN /\ Answer("drmModeGetResources", -1)
            /\ die("drmModeGetResources")
            /\ UNCHANGED res
       ELSE /\ res' = r
            /\ Goto("kms_get_connector")
            /\ UNCHANGED failed
  /\ UNCHANGED << connectors, conn, enc, conn_id, crtc_id, presVars, mode,
                  vm_id, placement, min_page_size, sysmem_min_page_size,
                  bo_handle, batch_handle, engines, inst, exec_queue_id,
                  sync_handle, devVars, loopVars >>
  /\ UNCHANGED << toyVars, askVars >>

\* the connector test ignores the connection state
ConnectorHasModes(c) == c # NoConnector /\ Len(c.modes) > 0

\* conn && conn->connection == DRM_MODE_CONNECTED && conn->count_modes > 0
ConnectorUsable(c) ==
  c # NoConnector /\ c.connection = DRM_MODE_CONNECTED /\ Len(c.modes) > 0

\* one round of for (i = 0; i < res->count_connectors; i++): connector i is
\* fetched; a usable one is kept (its id and modes[0] go into info) and ends
\* the loop, any other is freed.  When the loop runs out, conn is NULL:
\* "No connected connector found", exit(EXIT_FAILURE).
KmsGetConnector ==
  /\ pc = "kms_get_connector"
  /\ IF Len(connectors) < res.count_connectors
     THEN \E c \in ConnectorAnswers :
            /\ connectors' = Append(connectors, c)
            /\ IF ConnectorUsable(c)
               THEN /\ conn' = c
                    /\ conn_id' = ConnectorId(Len(connectors) + 1)
                    /\ mode' = c.modes[1]
                    /\ Goto("kms_get_encoder")
               ELSE /\ conn' = NoConnector
                    /\ Goto("kms_get_connector")
                    /\ UNCHANGED << conn_id, mode >>
     ELSE /\ Exit(EXIT_FAILURE, {"No connected connector found"})
          /\ UNCHANGED << connectors, conn, conn_id, mode >>
  /\ UNCHANGED << res, enc, crtc_id, presVars, vm_id, placement, min_page_size,
                  sysmem_min_page_size, bo_handle, batch_handle, engines, inst,
                  exec_queue_id, sync_handle, devVars, histVars >>
  /\ UNCHANGED << toyVars, askVars >>

\* what drmModeGetEncoder(fd, id) may return: NULL, or the encoder with the
\* CRTC it drives: one of the CRTCs of the resource list, or 0 for none
EncoderAnswers(id) ==
  {NoEncoder} \cup
  [encoder_id : {id},
   crtc_id : {0} \cup {res.crtcs[i] : i \in DOMAIN res.crtcs}]

\* if (conn->encoder_id) enc = drmModeGetEncoder(fd, conn->encoder_id);
KmsGetEncoder ==
  /\ pc = "kms_get_encoder"
  /\ IF conn.encoder_id # 0
     THEN \E e \in EncoderAnswers(conn.encoder_id) : enc' = e
     ELSE enc' = NoEncoder
  /\ Goto("kms_get_first_encoder")
  /\ UNCHANGED << res, connectors, conn, conn_id, crtc_id, presVars, mode,
                  vm_id, placement, min_page_size, sysmem_min_page_size,
                  bo_handle, batch_handle, engines, inst, exec_queue_id,
                  sync_handle, devVars, histVars >>
  /\ UNCHANGED << toyVars, askVars >>

\* if (!enc && res->count_encoders > 0)
\*     enc = drmModeGetEncoder(fd, res->encoders[0]);
KmsGetFirstEncoder ==
  /\ pc = "kms_get_first_encoder"
  /\ IF enc = NoEncoder /\ res.encoders0 # 0
     THEN \E e \in EncoderAnswers(res.encoders0) : enc' = e
     ELSE UNCHANGED enc
  /\ Goto("kms_pick_crtc")
  /\ UNCHANGED << res, connectors, conn, conn_id, crtc_id, presVars, mode,
                  vm_id, placement, min_page_size, sysmem_min_page_size,
                  bo_handle, batch_handle, engines, inst, exec_queue_id,
                  sync_handle, devVars, histVars >>
  /\ UNCHANGED << toyVars, askVars >>

\* if (!enc) { "No encoder found"; exit(EXIT_FAILURE); }
\* info.crtc_id = enc->crtc_id;
KmsPickCrtc ==
  /\ pc = "kms_pick_crtc"
  /\ IF enc = NoEncoder
     THEN Exit(EXIT_FAILURE, {"No encoder found"}) /\ UNCHANGED crtc_id
     ELSE crtc_id' = enc.crtc_id /\ Goto("kms_free")
  /\ UNCHANGED << res, connectors, conn, enc, conn_id, presVars, mode,
                  vm_id, placement, min_page_size, sysmem_min_page_size,
                  bo_handle, batch_handle, engines, inst, exec_queue_id,
                  sync_handle, devVars, histVars >>
  /\ UNCHANGED << toyVars, askVars >>

\* drmModeFreeEncoder(enc); drmModeFreeConnector(conn);
\* drmModeFreeResources(res); return info;
KmsFree ==
  /\ pc = "kms_free"
  /\ res' = NoRes /\ connectors' = << >>
  /\ conn' = NoConnector /\ enc' = NoEncoder
  /\ Goto(StepAfter(prog, "kms_setup_basic"))
  /\ UNCHANGED << conn_id, crtc_id, presVars, mode, vm_id, placement,
                  min_page_size, sysmem_min_page_size, bo_handle, batch_handle,
                  engines, inst, exec_queue_id, sync_handle, devVars, histVars >>
  /\ UNCHANGED << toyVars, askVars >>

\* 1) Create VM
VmCreate ==
  /\ pc = "vm_create"
  /\ \E ret \in IoctlRet :
       /\ IF ret = 0
          THEN /\ vm_id' = Cardinality(vms) + 1
               /\ vms' = vms \cup {Cardinality(vms) + 1}
          ELSE UNCHANGED << vm_id, vms >>
       /\ Answer("DRM_IOCTL_XE_VM_CREATE", ret)
       /\ IF IoctlFailed("DRM_IOCTL_XE_VM_CREATE", ret)
          THEN die("DRM_IOCTL_XE_VM_CREATE")
          ELSE Goto(StepAfter(prog, pc))
  /\ UNCHANGED << kmsVars, presVars, mode, placement, min_page_size,
                  sysmem_min_page_size, bo_handle, batch_handle, engines, inst,
                  exec_queue_id, sync_handle, presDevVars, mem_regions, bos,
                  bindings, queues, syncobj, inflight, loopVars >>
  /\ UNCHANGED << toyVars, askVars >>

\* the size probe and the fill of DRM_XE_DEVICE_QUERY_MEM_REGIONS; with
\* size 0 xe_mem_regions closes the session, which owns nothing yet, and
\* returns EXIT_FAILURE
DeviceQueryMemRegions ==
  /\ pc = "query_mem_regions"
  /\ \E r1 \in IoctlRet, r2 \in IoctlRet, list \in RegionLists, size0 \in BOOLEAN :
       /\ mem_regions' = IF r1 = 0 /\ r2 = 0 THEN list ELSE mem_regions
       /\ IF r1 < 0
          THEN Answer("DRM_IOCTL_XE_DEVICE_QUERY (size MEM_REGIONS)", r1)
          ELSE IF prog = "xe_mem_regions" /\ size0 THEN UNCHANGED failed
          ELSE Answer("DRM_IOCTL_XE_DEVICE_QUERY (MEM_REGIONS)", r2)
       /\ IF IoctlFailed("DRM_IOCTL_XE_DEVICE_QUERY", r1)
          THEN die("DRM_IOCTL_XE_DEVICE_QUERY (size MEM_REGIONS)")
          ELSE IF prog = "xe_mem_regions" /\ size0
          THEN Exit(EXIT_FAILURE, {"MEM_REGIONS query returned size=0"})
          ELSE IF IoctlFailed("DRM_IOCTL_XE_DEVICE_QUERY", r2)
          THEN die("DRM_IOCTL_XE_DEVICE_QUERY (MEM_REGIONS)")
          ELSE Goto(StepAfter(prog, pc))
  /\ UNCHANGED << locVars, presDevVars, vms, bos, bindings, queues, syncobj,
                  inflight, loopVars >>
  /\ UNCHANGED << toyVars, askVars >>

\* 2) Pick memory placement: the scan of pick_sysmem_placement, its
\* warning, and main's warning when the mask is 0
PickSysmemPlacement ==
  /\ pc = "scan_mem_regions"
  /\ LET r == SysmemPlacement(mem_regions)
     IN /\ placement' = r.placement
        /\ min_page_size' = r.min_page_size
        /\ GotoWarn(StepAfter(prog, pc),
                    IF r.placement = 0
                    THEN {"No SYSMEM region found; placement=0 (may fail)",
                          "WARNING: placement mask is 0, GEM_CREATE may fail"}
                    ELSE {})
  /\ UNCHANGED << kmsVars, presVars, mode, vm_id, sysmem_min_page_size,
                  bo_handle, batch_handle, engines, inst, exec_queue_id,
                  sync_handle, devVars, histVars >>
  /\ UNCHANGED << toyVars, askVars >>

\* xe_mem_regions.c: the loop that prints the regions and tracks the
\* SYSMEM min_page_size; free(mem)
PrintRegions ==
  /\ pc = "print_regions"
  /\ sysmem_min_page_size' = SysmemMinPageSize(mem_regions)
  /\ Goto(StepAfter(prog, pc))
  /\ UNCHANGED << kmsVars, presVars, mode, vm_id, placement, min_page_size,
                  bo_handle, batch_handle, engines, inst, exec_queue_id,
                  sync_handle, devVars, histVars >>
  /\ UNCHANGED << toyVars, askVars >>

\* close(fd); return 0;  Closing the session reclaims what it owns.
CloseFd ==
  /\ pc = "close"
  /\ vms' = {} /\ bos' = << >> /\ bindings' = {} /\ queues' = {}
  /\ syncobj' = "none" /\ inflight' = << >>
  /\ IF StepAfter(prog, pc) = "exited" THEN Exit(EXIT_SUCCESS, {})
     ELSE Goto(StepAfter(prog, pc))
  /\ UNCHANGED << locVars, presDevVars, mem_regions, histVars >>
  /\ UNCHANGED << toyVars, askVars >>

\* 3) Create GEM buffer attached to this VM; in image_render also the
\* batch buffer.  The device places the buffer in one region of the mask.
GemCreate ==
  /\ pc \in {"gem_create", "gem_create_batch"}
  /\ \E ret \in DrvGemCreateRets(mem_regions, placement) :
       /\ IF ret = 0
          THEN \E i \in DrvRegionsInMask(mem_regions, placement) :
                 /\ bos' = Append(bos,
                      [size |-> IF pc = "gem_create" THEN bo_size ELSE BATCH_BO_SIZE,
                       placement |-> placement,
                       vm_id |-> vm_id,
                       min_page_size |-> mem_regions[i].min_page_size,
                       mapped |-> FALSE,
                       data |-> "zero"])
                 /\ IF pc = "gem_create"
                    THEN bo_handle' = Len(bos) + 1 /\ UNCHANGED batch_handle
                    ELSE batch_handle' = Len(bos) + 1 /\ UNCHANGED bo_handle
          ELSE UNCHANGED << bos, bo_handle, batch_handle >>
       /\ Answer(IF pc = "gem_create" THEN "DRM_IOCTL_XE_GEM_CREATE"
                 ELSE "DRM_IOCTL_XE_GEM_CREATE batch", ret)
       /\ IF IoctlFailed("DRM_IOCTL_XE_GEM_CREATE", ret)
          THEN die(IF pc = "gem_create" THEN "DRM_IOCTL_XE_GEM_CREATE"
                   ELSE "DRM_IOCTL_XE_GEM_CREATE batch")
          ELSE Goto(StepAfter(prog, pc))
  /\ UNCHANGED << kmsVars, presVars, mode, vm_id, placement, min_page_size,
                  sysmem_min_page_size, engines, inst, exec_queue_id,
                  sync_handle, presDevVars, mem_regions, vms, bindings, queues,
                  syncobj, inflight, loopVars >>
  /\ UNCHANGED << toyVars, askVars >>

\* 4) DRM_IOCTL_XE_GEM_MMAP_OFFSET
GemMmapOffset ==
  /\ pc \in {"mmap_offset", "mmap_offset_batch"}
  /\ \E ret \in IoctlRet :
       /\ Answer(IF pc = "mmap_offset" THEN "DRM_IOCTL_XE_GEM_MMAP_OFFSET"
                 ELSE "DRM_IOCTL_XE_GEM_MMAP_OFFSET batch", ret)
       /\ IF IoctlFailed("DRM_IOCTL_XE_GEM_MMAP_OFFSET", ret)
          THEN die(IF pc = "mmap_offset" THEN "DRM_IOCTL_XE_GEM_MMAP_OFFSET"
                   ELSE "DRM_IOCTL_XE_GEM_MMAP_OFFSET batch")
          ELSE Goto(StepAfter(prog, pc))
  /\ UNCHANGED << locVars, devVars, loopVars >>
  /\ UNCHANGED << toyVars, askVars >>

\* the handle of the buffer that holds the batch
BatchBo == IF prog = "busy_sync" THEN bo_handle ELSE batch_handle

\* mmap(NULL, size, PROT_READ | PROT_WRITE, MAP_SHARED, fd, offset)
Mmap ==
  /\ pc \in {"mmap", "mmap_batch"}
  /\ \E map_failed \in BOOLEAN :
       /\ Answer(IF pc = "mmap" THEN "mmap BO" ELSE "mmap batch BO",
                 IF map_failed THEN -1 ELSE 0)
       /\ IF map_failed
          THEN die(IF pc = "mmap" THEN "mmap BO" ELSE "mmap batch BO")
               /\ UNCHANGED bos
          ELSE /\ bos' = [bos EXCEPT ![IF pc = "mmap" THEN bo_handle
                                       ELSE batch_handle].mapped = TRUE]
               /\ Goto(StepAfter(prog, pc))
  /\ UNCHANGED << locVars, presDevVars, mem_regions, vms, bindings, queues,
                  syncobj, inflight, loopVars >>
  /\ UNCHANGED << toyVars, askVars >>

\* paint_gradient((uint8_t *)map, width, height, stride)
PaintGradient ==
  /\ pc = "paint_gradient"
  /\ bos' = [bos EXCEPT ![bo_handle].data = "gradient"]
  /\ Goto(StepAfter(prog, pc))
  /\ UNCHANGED << locVars, presDevVars, mem_regions, vms, bindings, queues,
                  syncobj, inflight, histVars >>
  /\ UNCHANGED << toyVars, askVars >>

\* 5) batch[0] = MI_BATCH_BUFFER_END; batch[1] = 0;
WriteBatch ==
  /\ pc = "write_batch"
  /\ bos' = [bos EXCEPT ![BatchBo].data = "MI_BATCH_BUFFER_END"]
  /\ Goto(StepAfter(prog, pc))
  /\ UNCHANGED << locVars, presDevVars, mem_regions, vms, bindings, queues,
                  syncobj, inflight, histVars >>
  /\ UNCHANGED << toyVars, askVars >>

\* the entries of the bind call of busy_sync alone, whatever the program
BindOpsBatchOnly ==
  << [obj |-> BatchBo,
      addr |-> IF prog = "busy_sync" THEN BIND_ADDRESS ELSE GPU_BATCH_ADDR,
      range |-> BO_SIZE] >>

\* the entries of the bind call: busy_sync binds its one buffer,
\* image_render the batch and the color buffer
BindOps ==
  IF prog = "busy_sync"
  THEN << [obj |-> bo_handle, addr |-> BIND_ADDRESS, range |-> BO_SIZE] >>
  ELSE << [obj |-> batch_handle, addr |-> GPU_BATCH_ADDR, range |-> BATCH_BO_SIZE],
          [obj |-> bo_handle, addr |-> GPU_COLOR_ADDR, range |-> bo_size] >>

\* 6) Bind BO(s) into the VM (synchronous bind)
VmBind ==
  /\ pc = "vm_bind"
  /\ \E ret \in DrvBindRets(BindOps, bos) :
       /\ bindings' =
            IF ret = 0
            THEN bindings \cup
                   {[vm_id |-> vm_id, obj |-> BindOps[k].obj,
                     addr |-> BindOps[k].addr, range |-> BindOps[k].range] :
                    k \in 1..Len(BindOps)}
            ELSE bindings
       /\ Answer("DRM_IOCTL_XE_VM_BIND", ret)
       /\ IF IoctlFailed("DRM_IOCTL_XE_VM_BIND", ret) THEN die("DRM_IOCTL_XE_VM_BIND")
          ELSE Goto(StepAfter(prog, pc))
  /\ UNCHANGED << locVars, presDevVars, mem_regions, vms, bos, queues, syncobj,
                  inflight, loopVars >>
  /\ UNCHANGED << toyVars, askVars >>

\* the size probe and the fill of DRM_XE_DEVICE_QUERY_ENGINES
DeviceQueryEngines ==
  /\ pc = "query_engines"
  /\ \E r1 \in IoctlRet, r2 \in IoctlRet, list \in EngineLists :
       /\ engines' = IF r1 = 0 /\ r2 = 0 THEN list ELSE engines
       /\ IF r1 < 0 THEN Answer("DRM_IOCTL_XE_DEVICE_QUERY (size)", r1)
          ELSE Answer("DRM_IOCTL_XE_DEVICE_QUERY (ENGINES)", r2)
       /\ IF IoctlFailed("DRM_IOCTL_XE_DEVICE_QUERY", r1)
          THEN die("DRM_IOCTL_XE_DEVICE_QUERY (size)")
          ELSE IF IoctlFailed("DRM_IOCTL_XE_DEVICE_QUERY", r2)
          THEN die("DRM_IOCTL_XE_DEVICE_QUERY (ENGINES)")
          ELSE Goto(StepAfter(prog, pc))
  /\ UNCHANGED << kmsVars, presVars, mode, vm_id, placement, min_page_size,
                  sysmem_min_page_size, bo_handle, batch_handle, inst,
                  exec_queue_id, sync_handle, devVars, loopVars >>
  /\ UNCHANGED << toyVars, askVars >>

\* 7) Pick a RENDER engine instance: the loop of pick_render_engine, up to
\* the copy of the first RENDER entry into inst (or the end of the list)
PickRenderEngine ==
  /\ pc = "scan_engines"
  /\ inst' = RenderEngine(engines)
  /\ Goto(StepAfter(prog, pc))
  /\ UNCHANGED << kmsVars, presVars, mode, vm_id, placement, min_page_size,
                  sysmem_min_page_size, bo_handle, batch_handle, engines,
                  exec_queue_id, sync_handle, devVars, histVars >>
  /\ UNCHANGED << toyVars, askVars >>

\* free(engines); then return inst, or with no RENDER entry
\* fprintf(stderr, "No RENDER engine found\n"); exit(EXIT_FAILURE)
FreeEngines ==
  /\ pc = "free_engines"
  /\ engines' = << >>
  /\ IF inst = NoEngine THEN Exit(EXIT_FAILURE, {"No RENDER engine found"})
     ELSE Goto(StepAfter(prog, pc))
  /\ UNCHANGED << kmsVars, presVars, mode, vm_id, placement, min_page_size,
                  sysmem_min_page_size, bo_handle, batch_handle, inst,
                  exec_queue_id, sync_handle, devVars, histVars >>
  /\ UNCHANGED << toyVars, askVars >>

\* 8) Create exec queue for that engine + VM: width 1, one placement
ExecQueueCreate ==
  /\ pc = "exec_queue_create"
  /\ \E ret \in IoctlRet :
       /\ IF ret = 0
          THEN /\ exec_queue_id' = Cardinality(queues) + 1
               /\ queues' = queues \cup
                    {[exec_queue_id |-> Cardinality(queues) + 1, vm_id |-> vm_id,
                      instance |-> inst, width |-> 1]}
          ELSE UNCHANGED << exec_queue_id, queues >>
       /\ Answer("DRM_IOCTL_XE_EXEC_QUEUE_CREATE", ret)
       /\ IF IoctlFailed("DRM_IOCTL_XE_EXEC_QUEUE_CREATE", ret)
          THEN die("DRM_IOCTL_XE_EXEC_QUEUE_CREATE")
          ELSE Goto(StepAfter(prog, pc))
  /\ UNCHANGED << kmsVars, presVars, mode, vm_id, placement, min_page_size,
                  sysmem_min_page_size, bo_handle, batch_handle, engines, inst,
                  sync_handle, presDevVars, mem_regions, vms, bos, bindings,
                  syncobj, inflight, loopVars >>
  /\ UNCHANGED << toyVars, askVars >>

\* 9) create_syncobj(fd): a binary syncobj, created unsignaled (flags = 0)
CreateSyncobj ==
  /\ pc = "create_syncobj"
  /\ \E ret \in IoctlRet :
       /\ IF ret = 0
          THEN sync_handle' = 1 /\ syncobj' = "unsignaled"
          ELSE UNCHANGED << sync_handle, syncobj >>
       /\ Answer("DRM_IOCTL_SYNCOBJ_CREATE", ret)
       /\ IF IoctlFailed("DRM_IOCTL_SYNCOBJ_CREATE", ret)
          THEN die("DRM_IOCTL_SYNCOBJ_CREATE")
          ELSE Goto(StepAfter(prog, pc))
  /\ UNCHANGED << kmsVars, presVars, mode, vm_id, placement, min_page_size,
                  sysmem_min_page_size, bo_handle, batch_handle, engines, inst,
                  exec_queue_id, presDevVars, mem_regions, vms, bos, bindings,
                  queues, inflight, loopVars >>
  /\ UNCHANGED << toyVars, askVars >>

\* a reset that returns 0 and leaves the fence as it is
ResetSyncobjKeep ==
  /\ pc = "reset_syncobj"
  /\ Goto(StepAfter(prog, pc))
  /\ fenceops' = << "reset" >>
  /\ UNCHANGED << locVars, devVars, unwaited, cycle, failed >>
  /\ UNCHANGED << toyVars, askVars >>

\* reset_syncobj(fd, sync_handle): back to unsignaled
ResetSyncobj ==
  /\ pc = "reset_syncobj"
  /\ \E ret \in IoctlRet :
       /\ syncobj' = IF ret = 0 THEN "unsignaled" ELSE syncobj
       /\ Answer("DRM_IOCTL_SYNCOBJ_RESET", ret)
       /\ IF IoctlFailed("DRM_IOCTL_SYNCOBJ_RESET", ret)
          THEN die("DRM_IOCTL_SYNCOBJ_RESET")
          ELSE Goto(StepAfter(prog, pc))
  /\ fenceops' = << "reset" >>
  /\ UNCHANGED << locVars, presDevVars, mem_regions, vms, bos, bindings, queues,
                  inflight, unwaited, cycle >>
  /\ UNCHANGED << toyVars, askVars >>

\* a submit without syncs (num_syncs = 0): no fence to signal
ExecSyncsNone == << >>

\* exec.num_syncs = 1, exec.syncs = &sync, with struct drm_xe_sync sync:
\* .flags = DRM_XE_SYNC_FLAG_SIGNAL, .handle = sync_handle
ExecSyncs == << sync_handle >>

\* ioctl(fd, DRM_IOCTL_XE_EXEC, &exec): one batch at exec.address on the
\* queue, with the syncs that name the fence to signal on completion
Exec ==
  /\ pc = "exec"
  /\ \E ret \in IoctlRet :
       /\ IF ret = 0
          THEN /\ inflight' = Append(inflight,
                    [exec_queue_id |-> exec_queue_id,
                     address |-> ExecAddress(prog),
                     syncs |-> ExecSyncs])
               /\ unwaited' = unwaited + 1
          ELSE UNCHANGED << inflight, unwaited >>
       /\ Answer("DRM_IOCTL_XE_EXEC", ret)
       /\ IF IoctlFailed("DRM_IOCTL_XE_EXEC", ret) THEN die("DRM_IOCTL_XE_EXEC")
          ELSE Goto(StepAfter(prog, pc))
  /\ fenceops' = Append(fenceops, "submit")
  /\ UNCHANGED << locVars, presDevVars, mem_regions, vms, bos, bindings, queues,
                  syncobj, cycle >>
  /\ UNCHANGED << toyVars, askVars >>

\* the engine finishes the oldest batch it holds and signals the fence the
\* submit named
EngineComplete ==
  /\ inflight # << >>
  /\ inflight' = Tail(inflight)
  /\ syncobj' = IF Head(inflight).syncs # << >> THEN "signaled" ELSE syncobj
  /\ UNCHANGED << ctlVars, locVars, presDevVars, mem_regions, vms, bos, bindings,
                  queues, histVars >>
  /\ UNCHANGED << toyVars, askVars >>

\* a wait that does not block: it returns 0 whatever the state of the fence
WaitSyncobjNoBlock ==
  /\ pc = "wait_syncobj"
  /\ Goto(StepAfter(prog, pc))
  /\ fenceops' = Append(fenceops, "wait")
  /\ unwaited' = IF unwaited > 0 THEN unwaited - 1 ELSE 0
  /\ cycle' = IF cycle < MaxCycles THEN cycle + 1 ELSE cycle
  /\ UNCHANGED << locVars, devVars, failed >>
  /\ UNCHANGED << toyVars, askVars >>

\* a wait that consumes the signal: the fence is unsignaled when it returns
WaitSyncobjConsume ==
  /\ pc = "wait_syncobj"
  /\ syncobj = "signaled"
  /\ syncobj' = "unsignaled"
  /\ Goto(StepAfter(prog, pc))
  /\ fenceops' = Append(fenceops, "wait")
  /\ unwaited' = IF unwaited > 0 THEN unwaited - 1 ELSE 0
  /\ cycle' = IF cycle < MaxCycles THEN cycle + 1 ELSE cycle
  /\ UNCHANGED << locVars, presDevVars, mem_regions, vms, bos, bindings, queues,
                  inflight, failed >>
  /\ UNCHANGED << toyVars, askVars >>

\* wait_syncobj(fd, sync_handle): timeout INT64_MAX, so the call returns 0
\* only once the fence is signaled; the fence stays signaled.  The call can
\* also fail, and then the program dies.
WaitSyncobj ==
  /\ pc = "wait_syncobj"
  /\ \/ /\ syncobj = "signaled"
        /\ Answer("DRM_IOCTL_SYNCOBJ_WAIT", 0)
        /\ IF IoctlFailed("DRM_IOCTL_SYNCOBJ_WAIT", 0)
           THEN die("DRM_IOCTL_SYNCOBJ_WAIT")
           ELSE Goto(StepAfter(prog, pc))
        /\ unwaited' = IF unwaited > 0 THEN unwaited - 1 ELSE 0
        /\ cycle' = IF cycle < MaxCycles THEN cycle + 1 ELSE cycle
     \/ /\ Answer("DRM_IOCTL_SYNCOBJ_WAIT", -1)
        /\ IF IoctlFailed("DRM_IOCTL_SYNCOBJ_WAIT", -1)
           THEN die("DRM_IOCTL_SYNCOBJ_WAIT")
           ELSE Goto(StepAfter(prog, pc))
        /\ UNCHANGED << unwaited, cycle >>
  /\ fenceops' = Append(fenceops, "wait")
  /\ UNCHANGED << locVars, devVars >>
  /\ UNCHANGED << toyVars, askVars >>

\* the batch buffer exported instead of the color buffer
ExportHandleBatch == batch_handle

\* .handle = bo_handle of struct drm_prime_handle prime
ExportHandle == bo_handle

\* 9) Export the color BO as PRIME: the descriptor stands for the buffer
\* behind the handle
PrimeExport ==
  /\ pc = "prime_export"
  /\ \E ret \in IoctlRet :
       /\ IF ret = 0
          THEN /\ dmabufs' = Append(dmabufs, ExportHandle)
               /\ prime_fd' = Len(dmabufs) + 1
          ELSE UNCHANGED << dmabufs, prime_fd >>
       /\ Answer("DRM_IOCTL_PRIME_HANDLE_TO_FD", ret)
       /\ IF IoctlFailed("DRM_IOCTL_PRIME_HANDLE_TO_FD", ret)
          THEN die("DRM_IOCTL_PRIME_HANDLE_TO_FD")
          ELSE Goto(StepAfter(prog, pc))
  /\ UNCHANGED << kmsVars, kms_bo_handle, fb_id, mode, vm_id, placement,
                  min_page_size, sysmem_min_page_size, bo_handle, batch_handle,
                  engines, inst, exec_queue_id, sync_handle, kms_bos, fbs,
                  mem_regions, vms, bos, bindings, queues, syncobj, inflight,
                  loopVars >>
  /\ UNCHANGED << toyVars, askVars >>

\* the import on the KMS fd: a handle of the display session for the buffer
\* the descriptor stands for; a descriptor that stands for none is refused
PrimeImport ==
  /\ pc = "prime_import"
  /\ \E ret \in IF prime_fd \in DOMAIN dmabufs THEN IoctlRet ELSE {-1} :
       /\ IF ret = 0
          THEN /\ kms_bos' = Append(kms_bos, dmabufs[prime_fd])
               /\ kms_bo_handle' = Len(kms_bos) + 1
          ELSE UNCHANGED << kms_bos, kms_bo_handle >>
       /\ Answer("DRM_IOCTL_PRIME_FD_TO_HANDLE", ret)
       /\ IF IoctlFailed("DRM_IOCTL_PRIME_FD_TO_HANDLE", ret)
          THEN die("DRM_IOCTL_PRIME_FD_TO_HANDLE")
          ELSE Goto(StepAfter(prog, pc))
  /\ UNCHANGED << kmsVars, prime_fd, fb_id, mode, vm_id, placement,
                  min_page_size, sysmem_min_page_size, bo_handle, batch_handle,
                  engines, inst, exec_queue_id, sync_handle, dmabufs, fbs,
                  mem_regions, vms, bos, bindings, queues, syncobj, inflight,
                  loopVars >>
  /\ UNCHANGED << toyVars, askVars >>

\* 10) drmModeAddFB2(kms_fd, width, height, DRM_FORMAT_XRGB8888, handles,
\* pitches, offsets, &fb_id, 0) with handles[0] = kms_bo_handle and
\* pitches[0] = stride; a handle the display session does not know is refused
AddFB2 ==
  /\ pc = "add_fb2"
  /\ \E ret \in IF kms_bo_handle \in DOMAIN kms_bos THEN IoctlRet ELSE {-1} :
       /\ IF ret = 0
          THEN /\ fbs' = Append(fbs, [handle |-> kms_bo_handle,
                                      width |-> mode[1], height |-> mode[2],
                                      pitch |-> mode[1] * cpp])
               /\ fb_id' = Len(fbs) + 1
          ELSE UNCHANGED << fbs, fb_id >>
       /\ Answer("drmModeAddFB2", ret)
       /\ IF IoctlFailed("drmModeAddFB2", ret) THEN die("drmModeAddFB2")
          ELSE Goto(StepAfter(prog, pc))
  /\ UNCHANGED << kmsVars, prime_fd, kms_bo_handle, mode, vm_id, placement,
                  min_page_size, sysmem_min_page_size, bo_handle, batch_handle,
                  engines, inst, exec_queue_id, sync_handle, dmabufs, kms_bos,
                  mem_regions, vms, bos, bindings, queues, syncobj, inflight,
                  loopVars >>
  /\ UNCHANGED << toyVars, askVars >>

\* drmModeSetCrtc(kms_fd, kms.crtc_id, fb_id, 0, 0, &kms.conn_id, 1, &kms.mode)
SetCrtc ==
  /\ pc = "set_crtc"
  /\ \E ret \in IoctlRet :
       /\ Answer("drmModeSetCrtc", ret)
       /\ IF IoctlFailed("drmModeSetCrtc", ret) THEN die("drmModeSetCrtc")
          ELSE Goto(StepAfter(prog, pc))
  /\ UNCHANGED << locVars, devVars, loopVars >>
  /\ UNCHANGED << toyVars, askVars >>

\* while (1) sleep(1);
Sleep ==
  /\ pc = "sleep"
  /\ Goto(StepAfter(prog, pc))
  /\ UNCHANGED << locVars, devVars, histVars >>
  /\ UNCHANGED << toyVars, askVars >>

\* a step of the program that does not block
ProgramStep ==
  \/ OpenRenderNode
  \/ OpenCardNode
  \/ KmsSetupBasic
  \/ VmCreate
  \/ DeviceQueryMemRegions
  \/ PickSysmemPlacement
  \/ PrintRegions
  \/ CloseFd
  \/ GemCreate
  \/ GemMmapOffset
  \/ Mmap
  \/ PaintGradient
  \/ WriteBatch
  \/ VmBind
  \/ DeviceQueryEngines
  \/ PickRenderEngine
  \/ FreeEngines
  \/ ExecQueueCreate
  \/ CreateSyncobj
  \/ ResetSyncobj
  \/ Exec
  \/ PrimeExport
  \/ PrimeImport
  \/ AddFB2
  \/ SetCrtc
  \/ Sleep

Next ==
  \/ ProgramStep
  \/ WaitSyncobj
  \/ EngineComplete

Spec == Init /\ [][Next]_vars

\* while (1) { reset_syncobj; exec; wait_syncobj; }: the two calls of the
\* loop that do not block
LoopStep == ResetSyncobj \/ Exec

\* the steps of busy_sync.c, and the engine
BusySyncNext ==
  \/ OpenRenderNode
  \/ VmCreate
  \/ DeviceQueryMemRegions
  \/ PickSysmemPlacement
  \/ GemCreate
  \/ GemMmapOffset
  \/ Mmap
  \/ WriteBatch
  \/ VmBind
  \/ DeviceQueryEngines
  \/ PickRenderEngine
  \/ FreeEngines
  \/ ExecQueueCreate
  \/ CreateSyncobj
  \/ LoopStep
  \/ WaitSyncobj
  \/ EngineComplete

BusySyncInit == Init /\ prog = "busy_sync"

\* busy_sync alone, the program that loops.  The process is scheduled: a
\* call of the loop that does not block returns, and the wait returns once
\* the fence is signaled (while it is not, nothing makes the call return).
\* The engine completes every batch it holds.
LiveSpec ==
  /\ BusySyncInit /\ [][BusySyncNext]_vars
  /\ WF_vars(LoopStep)
  /\ WF_vars(WaitSyncobj /\ syncobj = "signaled")
  /\ WF_vars(EngineComplete)

\* kms_setup_basic statement by statement: image_render from its start to
\* the return of kms_setup_basic
KmsInit == Init /\ prog = "image_render"

KmsNext ==
  \/ OpenRenderNode
  \/ OpenCardNode
  \/ KmsGetResources
  \/ KmsGetConnector
  \/ KmsGetEncoder
  \/ KmsGetFirstEncoder
  \/ KmsPickCrtc
  \/ KmsFree

KmsSpec == KmsInit /\ [][KmsNext]_vars

\* ------------------------------------------------------- toy_pmu.c
\* The perf core calls the pmu callbacks of the events of a CPU on that CPU,
\* one at a time.  The hrtimer is pinned to the CPU and its callback runs
\* in interrupt context: between any two statements of a pmu callback,
\* except inside local_irq_disable() ... local_irq_enable().  counter,
\* prev_count and count are 64 bits wide; the ticks explored stay far below
\* the wrap.

\* a tick that counts twice
Local64IncTwice(c) == c + 2

\* local64_inc(&c->counter)
Local64Inc(c) == c + 1

\* toy_hrtimer_cb: with active > 0 one tick, and the timer is forwarded by
\* 1 ms and restarted; otherwise HRTIMER_NORESTART
ToyHrtimerCb ==
  /\ timer = "armed"
  /\ IF active > 0
     THEN /\ counter < MaxTicks
          /\ counter' = Local64Inc(counter)
          /\ ticks' = [e \in Events |->
                         IF e \in added /\ PERF_HES_STOPPED \notin event[e].state
                         THEN ticks[e] + (counter' - counter) ELSE ticks[e]]
          /\ UNCHANGED timer
     ELSE /\ timer' = "idle"
          /\ UNCHANGED << counter, ticks >>
  /\ UNCHANGED << active, event, toy_pc, toy_call, added, inorder >>
  /\ UNCHANGED << gpuVars, askVars >>

\* if (atomic_inc_return(&c->active) == 1) hrtimer_start(&c->timer, ...)
HrtimerAfterCpuStart(t, a) == IF a = 1 THEN "armed" ELSE t

\* toy_cpu_start, between local_irq_disable() and local_irq_enable()
ToyCpuStart ==
  /\ toy_pc = "toy_cpu_start"
  /\ active' = active + 1
  /\ timer' = HrtimerAfterCpuStart(timer, active + 1)
  /\ toy_pc' = "idle"
  /\ UNCHANGED << counter, event, toy_call, added, ticks, inorder >>
  /\ UNCHANGED << gpuVars, askVars >>

\* the last event stops and the timer is left running
HrtimerKeptAfterCpuStop(t, a) == t

\* if (atomic_dec_return(&c->active) == 0) hrtimer_cancel(&c->timer)
HrtimerAfterCpuStop(t, a) == IF a = 0 THEN "idle" ELSE t

\* toy_cpu_stop, between local_irq_disable() and local_irq_enable()
ToyCpuStop ==
  /\ toy_pc = "toy_cpu_stop"
  /\ active' = active - 1
  /\ timer' = HrtimerAfterCpuStop(timer, active - 1)
  /\ toy_pc' = "idle"
  /\ UNCHANGED << counter, event, toy_call, added, ticks, inorder >>
  /\ UNCHANGED << gpuVars, askVars >>

\* an update that adds the delta and keeps the old snapshot
ToyEventUpdateKeepPrev(hw, now) ==
  [hw EXCEPT !.count = @ + (now - hw.prev_count)]

\* toy_event_update: now is the CPU's counter; delta = now - prev_count;
\* prev_count = now; count += delta
ToyEventUpdate(hw, now) ==
  [hw EXCEPT !.prev_count = now, !.count = @ + (now - hw.prev_count)]

\* toy_event_add: count = 0, hw.state = PERF_HES_STOPPED, and with
\* PERF_EF_START in flags toy_event_start follows
ToyEventAdd ==
  /\ toy_pc = "idle"
  /\ \E e \in Events, flags \in SUBSET {PERF_EF_START} :
       /\ PERF_EF_START \in flags => active < MaxActive
       /\ event' = [event EXCEPT ![e].count = 0,
                                 ![e].state = {PERF_HES_STOPPED}]
       /\ toy_pc' = IF PERF_EF_START \in flags THEN "toy_event_start"
                    ELSE "idle"
       /\ toy_call' = [op |-> "add", event |-> e, skipped |-> FALSE]
       /\ added' = added \cup {e}
       /\ ticks' = [ticks EXCEPT ![e] = 0]
       /\ inorder' = [inorder EXCEPT ![e] = TRUE]
  /\ UNCHANGED << counter, active, timer >>
  /\ UNCHANGED << gpuVars, askVars >>

\* toy_event_start, called by the perf core or from toy_event_add, up to
\* local_irq_disable(): prev_count = the CPU's counter, hw.state = 0
ToyEventStart ==
  /\ \E e \in Events :
       /\ \/ /\ toy_pc = "idle"
             /\ e \in added
             /\ active < MaxActive
             /\ toy_call' = [op |-> "start", event |-> e, skipped |-> FALSE]
          \/ /\ toy_pc = "toy_event_start"
             /\ e = toy_call.event
             /\ UNCHANGED toy_call
       /\ event' = [event EXCEPT ![e].prev_count = counter, ![e].state = {}]
       /\ inorder' = [inorder EXCEPT
                        ![e] = @ /\ PERF_HES_STOPPED \in event[e].state]
  /\ toy_pc' = "toy_cpu_start"
  /\ UNCHANGED << counter, active, timer, added, ticks >>
  /\ UNCHANGED << gpuVars, askVars >>

\* a guard that never finds the event stopped
HesStoppedNever(hw) == FALSE

\* event->hw.state & PERF_HES_STOPPED
HesStopped(hw) == PERF_HES_STOPPED \in hw.state

\* toy_event_stop(event, flags), called as op, up to local_irq_disable():
\* nothing if the event is stopped; otherwise toy_event_update and
\* hw.state |= PERF_HES_STOPPED
StopEvent(e, op) ==
  /\ toy_pc = "idle"
  /\ e \in added
  /\ IF HesStopped(event[e])
     THEN /\ toy_call' = [op |-> op, event |-> e, skipped |-> TRUE]
          /\ UNCHANGED << event, toy_pc >>
     ELSE /\ event' = [event EXCEPT
                         ![e] = [ToyEventUpdate(@, counter) EXCEPT
                                   !.state = @ \cup {PERF_HES_STOPPED}]]
          /\ toy_pc' = "toy_cpu_stop"
          /\ toy_call' = [op |-> op, event |-> e, skipped |-> FALSE]
  /\ UNCHANGED << counter, active, timer, added, ticks, inorder >>
  /\ UNCHANGED << gpuVars, askVars >>

\* toy_pmu.stop
ToyEventStop == \E e \in Events : StopEvent(e, "stop")

\* toy_event_del: toy_event_stop(event, flags)
ToyEventDel == \E e \in Events : StopEvent(e, "del")

\* toy_event_read: toy_event_update(event)
ToyEventRead ==
  /\ toy_pc = "idle"
  /\ \E e \in Events :
       /\ e \in added
       /\ event' = [event EXCEPT ![e] = ToyEventUpdate(@, counter)]
       /\ toy_call' = [op |-> "read", event |-> e, skipped |-> FALSE]
       /\ inorder' = [inorder EXCEPT
                        ![e] = @ /\ PERF_HES_STOPPED \notin event[e].state]
  /\ UNCHANGED << counter, active, timer, toy_pc, added, ticks >>
  /\ UNCHANGED << gpuVars, askVars >>

ToyNext ==
  \/ ToyEventAdd
  \/ ToyEventStart
  \/ ToyCpuStart
  \/ ToyEventStop
  \/ ToyEventDel
  \/ ToyCpuStop
  \/ ToyEventRead
  \/ ToyHrtimerCb

\* toy_pmu on one CPU, from module init on
ToySpec == Init /\ [][ToyNext]_vars

\* ------------------------------------------------ ask_yes_or_quit.c
\* only the lower-case letter counts as yes
IsYesLower(c) == c = "y"

\* c == 'y' || c == 'Y'
IsYes(c) == c \in {"y", "Y"}

\* c == 'q' || c == 'Q'
IsQuit(c) == c \in {"q", "Q"}

\* a fourth invalid attempt is allowed
TooManyAtFour(a) == a >= 4

\* if (attempts >= 3)
TooMany(a) == a >= 3

\* one round of while (1): the prompt, the scanf, and what follows from its
\* result: return 'y', return 'q', or one more invalid attempt, the third
\* of which returns 'q' ("Too many invalid attempts. Quitting.")
AskRound ==
  /\ ask_ret = "none"
  /\ \E r \in ScanfFailures \cup Chars :
       /\ reads' = Append(reads, r)
       /\ IF r \in ScanfFailures
          THEN /\ attempts' = attempts + 1
               /\ ask_ret' = IF TooMany(attempts + 1) THEN "q" ELSE "none"
          ELSE IF IsYes(r)
          THEN ask_ret' = "y" /\ UNCHANGED attempts
          ELSE IF IsQuit(r)
          THEN ask_ret' = "q" /\ UNCHANGED attempts
          ELSE /\ attempts' = attempts + 1
               /\ ask_ret' = IF TooMany(attempts + 1) THEN "q" ELSE "none"
  /\ UNCHANGED << gpuVars, toyVars >>

AskNext == AskRound

\* ask_yes_or_quit from its call to its return.  Every scanf returns: with
\* a character, at end of input, or on a read error.
AskSpec == Init /\ [][AskNext]_vars /\ WF_vars(AskRound)

TypeOK ==
  /\ prog \in Programs
  /\ exit_status \in {"running", EXIT_FAILURE, EXIT_SUCCESS}
  /\ mem_regions \in RegionLists
  /\ engines \in EngineLists
  /\ syncobj \in {"none", "unsignaled", "signaled"}
  /\ fenceops \in SeqsUpTo({"reset", "submit", "wait"}, 3)
  /\ res \in Resources \cup {NoRes}
  /\ conn \in ConnectorAnswers
  /\ crtc_id \in {0} \cup CrtcIds
  /\ cycle \in 0..MaxCycles

\* ------------------------------------------------------------ claims
\* a program step taken from label l
StepFrom(l) == pc = l /\ pc' # pc

\* C1: the operations on the fence are issued in the order reset, submit,
\* wait, cycle after cycle: a reset follows nothing or a wait, a submit
\* follows a reset and finds no submission that was not waited for, a wait
\* follows a submit; so at most one submission is outstanding at any time.
FenceCycleOrder ==
  /\ [](unwaited <= 1)
  /\ [][ /\ StepFrom("reset_syncobj") =>
              (fenceops = << >> \/ fenceops[Len(fenceops)] = "wait")
         /\ StepFrom("exec") => (fenceops = << "reset" >> /\ unwaited = 0)
         /\ StepFrom("wait_syncobj") => fenceops = << "reset", "submit" >>
       ]_vars

\* busy_sync is in its third cycle with its one submission outstanding
FenceCycleOrderWitness ==
  /\ prog = "busy_sync"
  /\ cycle = MaxCycles
  /\ pc = "wait_syncobj"
  /\ unwaited = 1
  /\ inflight # << >>

\* C2: whenever wait returns (successfully), the fence operations since
\* the most recent reset are exactly that reset and one submit, and that
\* submit has completed; a wait with no submit after the reset does not
\* return.
WaitReturnsAfterSubmit ==
  [][ (pc = "wait_syncobj" /\ pc' \notin {pc, "exited"}) =>
        (fenceops = << "reset", "submit" >> /\ inflight = << >>
         /\ syncobj = "signaled") ]_vars

\* the wait of a later cycle of busy_sync has returned
WaitReturnsAfterSubmitWitness ==
  /\ prog = "busy_sync"
  /\ cycle = MaxCycles
  /\ fenceops = << "reset", "submit", "wait" >>
  /\ pc = "reset_syncobj"

\* C3: every batch handed to the queue lies at the VA of a binding that is
\* applied in the address space the queue was created on, and that binding
\* maps the buffer holding the batch; no submit is issued before the bind
\* has returned successfully.
SubmitAfterBind ==
  /\ \A i \in 1..Len(inflight) :
       \E b \in bindings, q \in queues :
         /\ q.exec_queue_id = inflight[i].exec_queue_id
         /\ b.vm_id = q.vm_id
         /\ b.addr = inflight[i].address
         /\ bos[b.obj].data = "MI_BATCH_BUFFER_END"
  /\ "exec" \in done => ("vm_bind" \in done /\ bindings # {})

\* image_render's batch is with the engine
SubmitAfterBindWitness ==
  /\ prog = "image_render"
  /\ inflight # << >>
  /\ Cardinality(bindings) = 2

\* every entry of the bind call is a multiple of the min_page_size of the
\* region that holds its buffer (addresses are in KiB, page sizes are
\* multiples of 1 KiB)
BindAligned ==
  \A k \in 1..Len(BindOps) :
    LET mps == bos[BindOps[k].obj].min_page_size
    IN /\ BindOps[k].addr % (mps \div 1024) = 0
       /\ BindOps[k].range % mps = 0

\* C4: once the bind call has returned, it has succeeded (its bindings are
\* applied) if and only if VA and range of every entry are multiples of the
\* min_page_size of the buffer's region; after a misaligned bind the program
\* has exited with a failure and no submit was issued.
BindFailsIffMisaligned ==
  "vm_bind" \in done =>
    /\ (bindings # {}) <=> BindAligned
    /\ ~BindAligned =>
         /\ pc = "exited" /\ exit_status = EXIT_FAILURE
         /\ "DRM_IOCTL_XE_VM_BIND" \in stderr
         /\ "exec" \notin done /\ inflight = << >> /\ unwaited = 0

\* a 4096-byte range was bound for a buffer in a 64 KiB-page region
BindFailsIffMisalignedWitness ==
  /\ "vm_bind" \in done
  /\ prog = "busy_sync"
  /\ bos[bo_handle].min_page_size = 65536
  /\ bindings = {}
  /\ pc = "exited"

\* C5 (as claimed): VA and range of every entry of a bind call the program
\* issues are multiples of the min_page_size the region scan selected.
BindRespectsScannedPageSize ==
  pc = "vm_bind" =>
    \A k \in 1..Len(BindOps) :
      /\ BindOps[k].addr % (min_page_size \div 1024) = 0
      /\ BindOps[k].range % min_page_size = 0

IsRenderEntry(e) == e.engine_class = "RENDER"

\* C6: with a render entry in the queried list, pick_render_engine takes
\* the first one in array order, whole ({class, instance, gt}): the entry at
\* the least index whose class is render, which is also the head of the
\* list with all non-render entries removed.
FirstRenderPicked ==
  (pc = "free_engines" /\ \E i \in 1..Len(engines) : IsRenderEntry(engines[i])) =>
    /\ \E i \in 1..Len(engines) :
         /\ IsRenderEntry(engines[i])
         /\ \A j \in 1..(i - 1) : ~IsRenderEntry(engines[j])
         /\ inst = engines[i]
    /\ inst = Head(SelectSeq(engines, IsRenderEntry))

\* a copy engine comes first, or two different render entries are listed
FirstRenderPickedWitness ==
  /\ pc = "free_engines"
  /\ Len(engines) = 2
  /\ IsRenderEntry(engines[2])
  /\ engines[2] # engines[1]
  /\ inst = engines[2]

NoRender(engs) == \A i \in 1..Len(engs) : ~IsRenderEntry(engs[i])

\* C7 (as claimed): with no render entry in the list the program exits
\* before any step that depends on the address space has run.
NoRenderExitsBeforeAddressSpace ==
  [][ (pc = "free_engines" /\ NoRender(engines)) =>
        /\ pc' = "exited" /\ exit_status' = EXIT_FAILURE
        /\ done' \cap {"vm_create", "gem_create", "vm_bind", "exec_queue_create"} = {}
     ]_vars

\* C7 (amended): with no render entry in the list pick_render_engine ends
\* the program with a failure before queue creation, fence creation and any
\* submit; the address space, the buffer and the binding exist by then; an
\* exited program issues no further step.
NoRenderExitsBeforeQueue ==
  /\ [][ (pc = "free_engines" /\ NoRender(engines)) =>
           /\ pc' = "exited" /\ exit_status' = EXIT_FAILURE
           /\ "No RENDER engine found" \in stderr'
           /\ done' \cap {"exec_queue_create", "create_syncobj",
                          "reset_syncobj", "exec", "wait_syncobj"} = {}
           /\ queues' = {} /\ syncobj' = "none" /\ inflight' = << >>
           /\ {"vm_create", "gem_create", "vm_bind"} \subseteq done'
           /\ vms' # {} /\ bos' # << >> /\ bindings' # {}
        ]_vars
  /\ [][pc = "exited" =>
          UNCHANGED << ctlVars, locVars, vms, bos, bindings, queues >>]_vars

\* the program has ended on a list without a render entry
NoRenderExitsBeforeQueueWitness ==
  /\ pc = "exited"
  /\ "No RENDER engine found" \in stderr
  /\ bindings # {}
  /\ queues = {}

\* each step of the sequence is issued only after the one before it
IssuedInOrder(order) ==
  \A i \in 1..(Len(order) - 1) : order[i + 1] \in done => order[i] \in done

\* C8 (as claimed): the capability query comes first, then address-space
\* creation, allocation, bind, engine pick, queue creation, fence creation
\* and the first submit.
SetupFollowsSpecFlow ==
  prog \in {"busy_sync", "image_render"} =>
    IssuedInOrder(<< "query_mem_regions", "vm_create", "gem_create", "vm_bind",
                     "scan_engines", "exec_queue_create", "create_syncobj",
                     "exec" >>)

\* C8 (amended): the setup steps are issued in the order of the code:
\* address-space creation, the memory-region query and scan, allocation with
\* the mask the scan returned and its CPU mapping, bind, the engine query and
\* pick, queue creation, fence creation, then the first reset and submit.
SetupFollowsCodeOrder ==
  prog \in {"busy_sync", "image_render"} =>
    /\ IssuedInOrder(<< "open_render_node", "vm_create", "query_mem_regions",
                        "scan_mem_regions", "gem_create", "mmap_offset", "mmap",
                        "write_batch", "vm_bind", "query_engines",
                        "scan_engines", "free_engines", "exec_queue_create",
                        "create_syncobj", "reset_syncobj", "exec",
                        "wait_syncobj" >>)
    /\ \A h \in DOMAIN bos :
         "scan_mem_regions" \in done /\ bos[h].placement = placement

\* busy_sync has gone through the whole setup and has submitted
SetupFollowsCodeOrderWitness ==
  /\ prog = "busy_sync"
  /\ "exec" \in done
  /\ inflight # << >>
  /\ cycle = 0

SysmemIndices(mem) ==
  {k \in 1..Len(mem) : mem[k].mem_class = "SYSMEM"}

\* C9: after the scan, bit i of the placement mask is set if and only if
\* some system-memory region of the scanned list has instance i; regions of
\* other classes contribute no bit.
PlacementIsSysmemMask ==
  (prog # "xe_mem_regions" /\ "scan_mem_regions" \in done) =>
    \A i \in 0..30 :
      TestBit(placement, i) <=>
        \E k \in SysmemIndices(mem_regions) : mem_regions[k].instance = i

\* a VRAM region with instance 0 is listed before a SYSMEM region with
\* instance 1: only bit 1 is set
PlacementIsSysmemMaskWitness ==
  /\ "scan_mem_regions" \in done
  /\ Len(mem_regions) = 2
  /\ mem_regions[1].mem_class = "VRAM" /\ mem_regions[1].instance = 0
  /\ mem_regions[2].mem_class = "SYSMEM" /\ mem_regions[2].instance = 1
  /\ placement = 2

SetMax(S) == CHOOSE x \in S : \A y \in S : y <= x

SysmemPageSizes(mem) == {mem[k].min_page_size : k \in SysmemIndices(mem)}

\* C10 (as claimed): with a system-memory region in the list, the
\* min_page_size the scan reports is the largest min_page_size of the
\* system-memory regions.
ScanReportsMaxSysmemPageSize ==
  (prog # "xe_mem_regions" /\ "scan_mem_regions" \in done
     /\ SysmemIndices(mem_regions) # {}) =>
    min_page_size = SetMax(SysmemPageSizes(mem_regions))

\* C10 (amended): with a system-memory region in the list, the
\* min_page_size pick_sysmem_placement reports is the larger of 4096 and the
\* largest min_page_size of the system-memory regions; the scan of
\* xe_mem_regions, which starts from 0, reports that largest value itself.
\* Regions of other classes do not influence either.
ScanReportsMaxSysmemPageSizeOrDefault ==
  /\ (prog # "xe_mem_regions" /\ "scan_mem_regions" \in done
        /\ SysmemIndices(mem_regions) # {}) =>
       min_page_size = SetMax(SysmemPageSizes(mem_regions) \cup {4096})
  /\ (prog = "xe_mem_regions" /\ "print_regions" \in done
        /\ SysmemIndices(mem_regions) # {}) =>
       sysmem_min_page_size = SetMax(SysmemPageSizes(mem_regions))

\* the larger of two system-memory page sizes comes first in the list
ScanReportsMaxSysmemPageSizeOrDefaultWitness ==
  /\ prog = "busy_sync"
  /\ "scan_mem_regions" \in done
  /\ Len(mem_regions) = 2
  /\ SysmemIndices(mem_regions) = {1, 2}
  /\ mem_regions[1].min_page_size = 65536
  /\ mem_regions[2].min_page_size = 4096
  /\ min_page_size = 65536


\* C11: a scan that finds no system-memory region does not end the program:
\* it returns mask 0 and logs the warning, and the next step is the
\* allocation; the allocation with mask 0 is the call that fails, fatally,
\* and it creates no buffer.
ZeroPlacementFailsAtAllocation ==
  /\ [][ (pc = "scan_mem_regions" /\ SysmemIndices(mem_regions) = {}) =>
           /\ pc' = "gem_create" /\ exit_status' = "running"
           /\ placement' = 0
           /\ "No SYSMEM region found; placement=0 (may fail)" \in stderr'
           /\ failed' = {}
        ]_vars
  /\ [][ (pc = "gem_create" /\ SysmemIndices(mem_regions) = {}) =>
           /\ placement = 0
           /\ pc' = "exited" /\ exit_status' = EXIT_FAILURE
           /\ "DRM_IOCTL_XE_GEM_CREATE" \in stderr'
           /\ failed' = {"DRM_IOCTL_XE_GEM_CREATE"}
           /\ bos' = << >>
        ]_vars

\* the device lists a VRAM region only; the allocation has failed
ZeroPlacementFailsAtAllocationWitness ==
  /\ pc = "exited"
  /\ mem_regions # << >>
  /\ SysmemIndices(mem_regions) = {}
  /\ placement = 0
  /\ "WARNING: placement mask is 0, GEM_CREATE may fail" \in stderr
  /\ failed = {"DRM_IOCTL_XE_GEM_CREATE"}

\* the entities of the render session are still there
NothingRolledBack ==
  /\ vms \subseteq vms' /\ bindings \subseteq bindings' /\ queues \subseteq queues'
  /\ Len(bos) <= Len(bos')
  /\ \A h \in DOMAIN bos : bos[h].mapped => bos'[h].mapped
  /\ syncobj # "none" => syncobj' # "none"
  /\ "close" \notin done'

\* C12: a failed device operation ends the program at once: with a failure
\* on record the program has exited with EXIT_FAILURE and exactly one
\* operation has failed (none was retried, none was issued after it); an
\* exited program takes no further step; and nothing that was created is
\* destroyed, unbound or unmapped on the way out.
FailureIsFatal ==
  /\ [](failed # {} =>
          /\ pc = "exited" /\ exit_status = EXIT_FAILURE
          /\ Cardinality(failed) = 1)
  /\ [][pc = "exited" => UNCHANGED << ctlVars, locVars, failed >>]_vars
  /\ [][failed' # {} => NothingRolledBack]_vars

\* the submit of a later cycle of busy_sync has failed
FailureIsFatalWitness ==
  /\ prog = "busy_sync"
  /\ failed = {"DRM_IOCTL_XE_EXEC"}
  /\ cycle > 0
  /\ pc = "exited"
  /\ bindings # {} /\ queues # {} /\ vms # {} /\ syncobj # "none"

\* C13: the bind call of image_render carries two entries, the batch and
\* the render target: once it has returned, either both are applied in the
\* address space and the call succeeded, or none is applied, the call failed
\* and the program has exited.
BindAllOrNothing ==
  (prog = "image_render" /\ "vm_bind" \in done) =>
    LET batch == [vm_id |-> vm_id, obj |-> batch_handle,
                  addr |-> GPU_BATCH_ADDR, range |-> BATCH_BO_SIZE]
        color == [vm_id |-> vm_id, obj |-> bo_handle,
                  addr |-> GPU_COLOR_ADDR, range |-> bo_size]
    IN \/ /\ bindings = {batch, color}
          /\ "DRM_IOCTL_XE_VM_BIND" \notin failed
       \/ /\ bindings = {}
          /\ "DRM_IOCTL_XE_VM_BIND" \in failed
          /\ pc = "exited"

\* the batch entry is aligned, the render target (1366 x 768 x 4 bytes) is
\* not: nothing is applied
BindAllOrNothingWitness ==
  /\ prog = "image_render"
  /\ "vm_bind" \in done
  /\ mode = << 1366, 768 >>
  /\ bos[batch_handle].min_page_size = 4096
  /\ bos[bo_handle].min_page_size = 4096
  /\ bindings = {}

AlignedBufferBound ==
  /\ prog = "busy_sync"
  /\ bo_handle \in DOMAIN bos
  /\ bos[bo_handle].min_page_size = 4096
  /\ [vm_id |-> vm_id, obj |-> bo_handle, addr |-> BIND_ADDRESS,
      range |-> BO_SIZE] \in bindings

\* the batch is submitted and the caller is in (or about to enter) the wait
Submitted ==
  /\ AlignedBufferBound
  /\ pc = "wait_syncobj"
  /\ unwaited = 1

\* the loop is at its top, between two cycles
Idle ==
  /\ AlignedBufferBound
  /\ pc = "reset_syncobj"
  /\ exit_status = "running"

\* the wait of the cycle has returned 0 with the fence signaled
WaitReturned ==
  /\ AlignedBufferBound
  /\ fenceops = << "reset", "submit", "wait" >>
  /\ syncobj = "signaled"
  /\ unwaited = 0
  /\ failed = {}

\* one of the three device operations of the loop has failed and the
\* program has exited
LoopFailed ==
  /\ pc = "exited"
  /\ exit_status = EXIT_FAILURE
  /\ failed \cap {"DRM_IOCTL_SYNCOBJ_RESET", "DRM_IOCTL_XE_EXEC",
                  "DRM_IOCTL_SYNCOBJ_WAIT"} # {}

\* C15 as stated: with the aligned buffer bound and an engine that completes
\* every batch, each submit is eventually followed by the wait returning and
\* the loop back in Idle, and from Idle the loop submits again.
EverySubmitCompletes ==
  /\ Submitted ~> (WaitReturned /\ Idle)
  /\ Idle ~> Submitted

\* C15, amended: with the aligned buffer bound and an engine that completes
\* every batch, each submit is eventually followed either by the wait
\* returning with the fence signaled and the loop back in Idle, or by the
\* fatal exit on a failed wait; from Idle the loop either submits again or
\* exits on a failed reset or submit.
EverySubmitCompletesOrFails ==
  /\ Submitted ~> ((WaitReturned /\ Idle) \/ LoopFailed)
  /\ Idle ~> (Submitted \/ LoopFailed)

\* a later cycle of busy_sync is back in Idle, its wait returned
EverySubmitCompletesOrFailsWitness ==
  /\ WaitReturned
  /\ Idle
  /\ cycle = MaxCycles

\* C16 as stated: while the engine holds the batch and the fence is not
\* signaled, the caller in wait takes no step out of the wait.
HungEngineBlocksForever ==
  [][(pc = "wait_syncobj" /\ syncobj # "signaled") => pc' = pc]_vars

\* C16, amended: while the fence is not signaled the caller in wait stays in
\* the wait: no reset, no submit, no return to the top of the loop; the one
\* step out of it is the fatal exit taken when the wait call itself fails.
HungEngineBlocksOrDies ==
  [][(pc = "wait_syncobj" /\ syncobj # "signaled") =>
       \/ pc' = pc /\ exit_status' = "running" /\ fenceops' = fenceops
       \/ /\ pc' = "exited" /\ exit_status' = EXIT_FAILURE
          /\ failed' = {"DRM_IOCTL_SYNCOBJ_WAIT"}
          /\ syncobj' = syncobj
    ]_vars

\* busy_sync waits in a later cycle on a batch the engine still holds
HungEngineBlocksOrDiesWitness ==
  /\ prog = "busy_sync"
  /\ pc = "wait_syncobj"
  /\ inflight # << >>
  /\ syncobj = "unsignaled"
  /\ cycle = MaxCycles

\* busy_sync has created its fence: everything the loop uses exists
InLoop ==
  /\ prog = "busy_sync"
  /\ "create_syncobj" \in done
  /\ pc # "exited"

\* C17: once the loop is entered nothing is destroyed: the address space,
\* the buffer and its mapping, the binding, the queue and the fence exist in
\* every cycle, the handles the loop uses never change, and every submit
\* names the same queue, the same bound address and the same fence.
NothingDestroyedInLoop ==
  /\ [](InLoop =>
          /\ "close" \notin done
          /\ vm_id \in vms
          /\ bo_handle \in DOMAIN bos /\ bos[bo_handle].mapped
          /\ [vm_id |-> vm_id, obj |-> bo_handle, addr |-> BIND_ADDRESS,
              range |-> BO_SIZE] \in bindings
          /\ exec_queue_id # 0
          /\ \E q \in queues : q.exec_queue_id = exec_queue_id
          /\ sync_handle # 0 /\ syncobj # "none"
          /\ \A i \in DOMAIN inflight :
               inflight[i] = [exec_queue_id |-> exec_queue_id,
                              address |-> BIND_ADDRESS,
                              syncs |-> << sync_handle >>])
  /\ [][InLoop => UNCHANGED << vm_id, bo_handle, exec_queue_id, sync_handle,
                               vms, bos, bindings, queues >>]_vars

\* busy_sync submits in a later cycle
NothingDestroyedInLoopWitness ==
  /\ InLoop
  /\ cycle = MaxCycles
  /\ pc = "wait_syncobj"
  /\ inflight # << >>


\* C18: the CRTC is the one of the connector's current encoder if there is
\* one, else the first CRTC of the resource list; kms_setup_basic exits for
\* want of a CRTC only if there is neither, so the CRTC it returns for the
\* mode-set is a CRTC of the resource list.
CrtcFromEncoderElseFirstCrtc ==
  /\ [](pc = "kms_free" =>
          /\ \E i \in DOMAIN res.crtcs : crtc_id = res.crtcs[i]
          /\ conn.encoder_id = 0 => crtc_id = res.crtcs[1])
  /\ [][(pc = "kms_pick_crtc" /\ pc' = "exited") => res.crtcs = << >>]_vars

\* the connector the loop of kms_setup_basic kept is the last one fetched
Qualifies(c) == c.connection = "CONNECTED" /\ c.modes # << >>

\* C19: kms_setup_basic keeps the first connector, in the order of the
\* resource list, that is connected and has modes: every connector fetched
\* before it is disconnected, without modes or not fetched; its id and its
\* mode 0 are the ones returned.  If the list holds no such connector the
\* program exits with EXIT_FAILURE, before any address space or buffer exists.
FirstUsableConnectorPicked ==
  /\ [](pc \in {"kms_get_encoder", "kms_get_first_encoder", "kms_pick_crtc",
                "kms_free"} =>
          LET n == Len(connectors) IN
          /\ n \in 1..res.count_connectors
          /\ Qualifies(connectors[n])
          /\ \A i \in 1..(n - 1) : ~Qualifies(connectors[i])
          /\ conn = connectors[n]
          /\ conn_id = ConnectorId(n)
          /\ mode = connectors[n].modes[1])
  /\ [][(pc = "kms_get_connector" /\ pc' = "exited") =>
          /\ Len(connectors) = res.count_connectors
          /\ \A i \in DOMAIN connectors : ~Qualifies(connectors[i])
          /\ exit_status' = EXIT_FAILURE
          /\ "No connected connector found" \in stderr'
          /\ vms' = {} /\ bos' = << >>
          /\ done' \cap {"vm_create", "gem_create"} = {}
       ]_vars

\* the first connector is connected but has no modes, the second one is
\* kept, with the first of its two modes
FirstUsableConnectorPickedWitness ==
  /\ pc = "kms_get_encoder"
  /\ Len(connectors) = 2
  /\ connectors[1].connection = "CONNECTED" /\ connectors[1].modes = << >>
  /\ Len(connectors[2].modes) = 2
  /\ conn_id = ConnectorId(2)
  /\ mode = connectors[2].modes[1]


\* C20: the handle the display session got from the import addresses the
\* buffer the render session exported, the render target: what the CPU wrote
\* through the render session's mapping (the gradient) is what the imported
\* handle shows; and every display surface is created on that imported
\* handle.
ImportSharesExportedBuffer ==
  /\ prime_fd # -1 =>
       /\ prime_fd \in DOMAIN dmabufs
       /\ dmabufs[prime_fd] = bo_handle
  /\ kms_bo_handle # 0 =>
       /\ kms_bo_handle \in DOMAIN kms_bos
       /\ kms_bos[kms_bo_handle] = bo_handle
       /\ kms_bos[kms_bo_handle] # batch_handle
       /\ bos[kms_bos[kms_bo_handle]].mapped
       /\ bos[kms_bos[kms_bo_handle]].data = "gradient"
  /\ \A f \in DOMAIN fbs :
       /\ kms_bo_handle # 0
       /\ fbs[f].handle = kms_bo_handle
       /\ fbs[f].pitch = mode[1] * cpp
  /\ fb_id # 0 => fb_id \in DOMAIN fbs

\* the surface exists on the imported handle and is about to be shown
ImportSharesExportedBufferWitness ==
  /\ prog = "image_render"
  /\ pc = "set_crtc"
  /\ fb_id # 0
  /\ kms_bo_handle # 0
  /\ fbs[fb_id].handle = kms_bo_handle
  /\ bos[kms_bos[kms_bo_handle]].data = "gradient"


\* C21: the fence is unsignaled at every submit that names it.  When the
\* program is about to submit, the fence is unsignaled, the engine holds no
\* earlier batch that could signal it, and the last operation on the fence
\* is the reset of this cycle, issued after the wait of the previous cycle
\* returned; this holds in the first cycle too, where the fence is new.
FenceUnsignaledAtSubmit ==
  /\ [](pc = "exec" =>
          /\ syncobj = "unsignaled"
          /\ inflight = << >> /\ unwaited = 0
          /\ fenceops = << "reset" >>)
  /\ [][StepFrom("exec") =>
          /\ syncobj = "unsignaled"
          /\ \A i \in DOMAIN inflight' : inflight'[i].syncs = << sync_handle >>
       ]_vars
  /\ [][(StepFrom("reset_syncobj") /\ cycle > 0) =>
          /\ syncobj = "signaled"
          /\ unwaited = 0
          /\ fenceops = << "reset", "submit", "wait" >>
       ]_vars

\* busy_sync submits in a later cycle: the fence was signaled by the cycle
\* before and has been reset
FenceUnsignaledAtSubmitWitness ==
  /\ prog = "busy_sync"
  /\ pc = "wait_syncobj"
  /\ cycle = MaxCycles
  /\ fenceops = << "reset", "submit" >>
  /\ inflight # << >>
  /\ syncobj = "unsignaled"


\* the invalid attempts among the first n reads: scanf failed, or the
\* character is none of y, Y, q, Q
InvalidReads(n) ==
  Cardinality({j \in 1..n : reads[j] \notin {"y", "Y", "q", "Q"}})

\* C27: ask_yes_or_quit returns, whatever scanf reads, failures and end of
\* input included, and after at most 3 rounds: attempts counts the invalid
\* rounds, every round returns or adds one to attempts, while the function
\* is in its loop every round so far was invalid and there were fewer than
\* 3, and the function eventually returns.
AskReturnsWithinThreeRounds ==
  /\ [](/\ Len(reads) <= 3
        /\ attempts = InvalidReads(Len(reads))
        /\ ask_ret = "none" => (attempts = Len(reads) /\ attempts < 3))
  /\ [][reads' # reads =>
          /\ Len(reads') = Len(reads) + 1
          /\ ask_ret' # "none" \/ attempts' = attempts + 1]_vars
  /\ <>(ask_ret # "none")

\* end of input, then a read error, then a character that is no answer:
\* the third invalid attempt has returned 'q'
AskReturnsWithinThreeRoundsWitness ==
  /\ reads = << "EOF", "error", "1" >>
  /\ attempts = 3
  /\ ask_ret = "q"

\* C28: ask_yes_or_quit returns 'y' or 'q' only; 'y' if and only if one of
\* the first three reads is y or Y with no q or Q before it and fewer than
\* three invalid attempts before it; 'q' in every other case.
AskReturnsYesOrQuit ==
  ask_ret # "none" =>
    LET yes == \E i \in DOMAIN reads :
                 /\ i <= 3
                 /\ reads[i] \in {"y", "Y"}
                 /\ \A j \in 1..(i - 1) : reads[j] \notin {"q", "Q"}
                 /\ InvalidReads(i - 1) < 3
    IN /\ ask_ret \in {"y", "q"}
       /\ ask_ret = "y" <=> yes
       /\ ask_ret = "q" <=> ~yes

\* two invalid attempts, then Y
AskReturnsYesOrQuitWitness ==
  /\ reads = << "EOF", "n", "Y" >>
  /\ attempts = 2
  /\ ask_ret = "y"


\* the events of the CPU that are started: hw.state without PERF_HES_STOPPED
StartedEvents == {e \in added : PERF_HES_STOPPED \notin event[e].state}

\* C22: whenever no pmu callback is running on the CPU, whatever add,
\* start, stop and del calls were made on its events, active equals the
\* number of its events that are started, and it is not negative.
ActiveCountsStartedEvents ==
  toy_pc = "idle" => (active = Cardinality(StartedEvents) /\ active >= 0)

\* C23: the timer is armed exactly while active > 0.  It is started on the
\* step that takes active from 0 to 1 and cancelled on the step that takes
\* it back to 0, its state changes on no other step, and a callback that
\* counts a tick has found active > 0 and leaves the timer armed.
TimerArmedWhileActive ==
  /\ [](timer = "armed" <=> active > 0)
  /\ [][ /\ (active = 0 /\ active' # 0) =>
              (active' = 1 /\ timer = "idle" /\ timer' = "armed")
         /\ (active # 0 /\ active' = 0) =>
              (active = 1 /\ timer = "armed" /\ timer' = "idle")
         /\ timer' # timer => (active = 0 \/ active' = 0)
         /\ counter' # counter =>
              (active > 0 /\ timer = "armed" /\ timer' = "armed")
       ]_vars

\* the timer has ticked and was cancelled when the last started event
\* stopped
TimerArmedWhileActiveWitness ==
  /\ toy_pc = "idle"
  /\ toy_call.op \in {"stop", "del"} /\ ~toy_call.skipped
  /\ counter > 0
  /\ active = 0
  /\ timer = "idle"

\* C24: the tick counter never decreases; it changes only by +1, in a timer
\* callback that finds active > 0; no event operation (add, start, stop,
\* del, read) changes it: the step that changes it leaves the events, the
\* call in progress and active alone.
CounterOnlyTicks ==
  /\ [](counter >= 0)
  /\ [][counter' # counter =>
          /\ counter' = counter + 1
          /\ active > 0 /\ timer = "armed"
          /\ UNCHANGED << event, active, toy_pc, toy_call, added >>
       ]_vars

\* the counter has ticked MaxTicks times and an event was read since
CounterOnlyTicksWitness ==
  /\ counter = MaxTicks
  /\ toy_call.op = "read"
  /\ event[toy_call.event].count = MaxTicks
  /\ event[toy_call.event].prev_count = counter

\* C25: for an event that, since its add, was started only when stopped and
\* read only when started, the count plus what the next update will add is
\* the number of ticks of the counter while the event was started: after
\* the stop the count is exactly that number, and no read or stop counts a
\* tick twice or loses one.
EventCountsItsTicks ==
  \A e \in added :
    inorder[e] =>
      /\ PERF_HES_STOPPED \in event[e].state => event[e].count = ticks[e]
      /\ PERF_HES_STOPPED \notin event[e].state =>
           event[e].count + (counter - event[e].prev_count) = ticks[e]

\* an event was added, started, read after a first tick and stopped after
\* a later one
EventCountsItsTicksWitness ==
  /\ toy_pc = "idle"
  /\ toy_call.op = "stop" /\ ~toy_call.skipped
  /\ inorder[toy_call.event]
  /\ event[toy_call.event].count = MaxTicks
  /\ ticks[toy_call.event] = MaxTicks
  /\ active = 0

\* C26: a stop or a del of an event that is already stopped changes
\* nothing: active, the timer, the counter, the event's count, prev_count
\* and state are as before and no further statement of the callback
\* follows; so a del after a stop, or after an add without PERF_EF_START,
\* does not decrement active.
StopOfStoppedChangesNothing ==
  [][\A e \in added :
       ( /\ toy_pc = "idle"
         /\ PERF_HES_STOPPED \in event[e].state
         /\ toy_call' # toy_call
         /\ toy_call'.op \in {"stop", "del"}
         /\ toy_call'.event = e ) =>
       ( /\ toy_call'.skipped
         /\ UNCHANGED << active, timer, counter, event, toy_pc >> )
    ]_vars

\* a del has found its event stopped while another event is started
StopOfStoppedChangesNothingWitness ==
  /\ toy_pc = "idle"
  /\ toy_call.op = "del" /\ toy_call.skipped
  /\ PERF_HES_STOPPED \in event[toy_call.event].state
  /\ active = 1 /\ Cardinality(StartedEvents) = 1
  /\ timer = "armed"

============================================================================
